---- MODULE Spec2Model ----
(***************************************************************************)
(* State-machine model of XYalign's two scripts:                           *)
(*   src/src/sexChromosomeBamTraverse.py  main / traverse_bam / plot_data  *)
(*   src/src/xyalign.py                   parse_platypus_VCF               *)
(*                                                                         *)
(* Both files start with "from __future__ import division", so every "/"   *)
(* is true division.  Numbers that the code divides are modelled as exact  *)
(* rationals <<numerator, denominator>> in lowest terms; integers are      *)
(* <<n, 1>>, which is also how Python's Counter keys behave (2 == 2.0).    *)
(* pandas' DataFrame constructor, pysam and seaborn are libraries outside  *)
(* the repository: a DataFrame is modelled as the table it is built from.  *)
(***************************************************************************)
EXTENDS Integers, Sequences, FiniteSets, TLC

\* Bounds of the model.
MaxWindow == 3
MaxChrLen == 4
MaxLines == 3

----------------------------------------------------------------------------
\* Exact arithmetic for Python's true division.

RECURSIVE GCD(_, _)
GCD(a, b) == IF b = 0 THEN a ELSE GCD(b, a % b)

Rat(n, d) == IF n = 0 THEN <<0, 1>> ELSE <<n \div GCD(n, d), d \div GCD(n, d)>>

Zero == Rat(0, 1)

RatAdd(x, y) == Rat(x[1] * y[2] + y[1] * x[2], x[2] * y[2])

RatGeq(x, y) == x[1] * y[2] >= y[1] * x[2]

RECURSIVE SumInts(_)
SumInts(list) == IF list = <<>> THEN 0 ELSE Head(list) + SumInts(Tail(list))

RECURSIVE SumRats(_)
SumRats(list) == IF list = <<>> THEN Zero ELSE RatAdd(Head(list), SumRats(Tail(list)))

\* np.mean(np.asarray(list)): the sum of ALL elements over the length of the list.
np_sum(list) == SumRats(list)
np_mean(list) == Rat(SumRats(list)[1], SumRats(list)[2] * Len(list))

----------------------------------------------------------------------------
\* Pileup columns: a column is the sequence of its pileup reads.

Read(base, mapq) == [base |-> base, mapq |-> mapq, is_del |-> FALSE, is_refskip |-> FALSE]
DelRead == [base |-> "A", mapq |-> 60, is_del |-> TRUE, is_refskip |-> FALSE]
SkipRead == [base |-> "A", mapq |-> 60, is_del |-> FALSE, is_refskip |-> TRUE]

ColDel == <<DelRead, SkipRead>>
Col5 == <<Read("A", 60), Read("A", 60), Read("A", 60), Read("A", 60), Read("C", 20)>>
Col3 == <<Read("A", 60), Read("C", 30), Read("A", 30)>>
ColTri == <<Read("A", 60), Read("C", 60), Read("G", 0)>>

Columns == {ColDel, Col5, Col3, ColTri}

\* Lines 95-99: the reads that are neither deletions nor reference skips.
Contributing(column) == SelectSeq(column, LAMBDA read : ~read.is_del /\ ~read.is_refskip)

base_counter(column) ==
    LET reads == Contributing(column)
        bases == {reads[i].base : i \in DOMAIN reads}
    IN [b \in bases |-> Cardinality({i \in DOMAIN reads : reads[i].base = b})]

col_mapqs(column) ==
    LET reads == Contributing(column) IN [i \in DOMAIN reads |-> reads[i].mapq]

\* Lines 102-105: the two largest values of sorted(base_counter.values(), reverse=True).
num_major(column) ==
    LET bc == base_counter(column)
    IN IF DOMAIN bc = {} THEN 0
       ELSE bc[CHOOSE b \in DOMAIN bc : \A c \in DOMAIN bc : bc[b] >= bc[c]]

num_minor(column) ==
    LET bc == base_counter(column)
    IN IF Cardinality(DOMAIN bc) < 2 THEN 0
       ELSE LET top == CHOOSE b \in DOMAIN bc : \A c \in DOMAIN bc : bc[b] >= bc[c]
                rest == DOMAIN bc \ {top}
            IN bc[CHOOSE b \in rest : \A c \in rest : bc[b] >= bc[c]]

total_depth(column) == num_major(column) + num_minor(column)

\* Line 108.
PassesDepth(column, min_depth) == total_depth(column) >= min_depth

\* Lines 111-112.
allele_fraction(column) == Rat(num_minor(column), total_depth(column))

PassesMinor(column, min_minor_depth, min_minor_fraction) ==
    /\ num_minor(column) >= min_minor_depth
    /\ RatGeq(allele_fraction(column), min_minor_fraction)

\* Line 110: sum(col_mapqs) / len(col_mapqs).
mean_mapq(column) == Rat(SumInts(col_mapqs(column)), Len(col_mapqs(column)))

----------------------------------------------------------------------------
\* Helpers of traverse_bam.

reset_lists(n, size) == [i \in 1..n |-> [j \in 1..size |-> Zero]]

reset_counters(n) == [i \in 1..n |-> <<>>]

RECURSIVE counter_update(_, _)
counter_update(counter, list) ==
    IF list = <<>> THEN counter
    ELSE counter_update(
            IF Head(list) \in DOMAIN counter
            THEN [counter EXCEPT ![Head(list)] = @ + 1]
            ELSE counter @@ (Head(list) :> 1),
            Tail(list))

\* Line 84.
NumWindowsNoPlusOne(chr_length, window_size) == chr_length \div window_size
NumWindows(chr_length, window_size) == chr_length \div window_size + 1

\* Line 120.
AtWindowEndFull(position, window_size) == position = window_size
AtWindowEnd(position, window_size) == position = window_size - 1

\* Lines 152-155: the keys of the returned dictionary.
ResultKeys == {"windows", "mapq_freq"}

\* Lines 165-168: the keys plot_data reads.
PlotKeys == {"windows", "depth_freq", "readbal_freq", "mapq_freq"}

----------------------------------------------------------------------------
\* Command line (parse_args) and alignment-file header.

References == {"chrX", "chrY"}

ChromosomeLists ==
    {<<"chrX">>, <<"chrY">>, <<"chrUn">>, <<"chrX", "chrUn">>,
     <<"chrUn", "chrX">>, <<"chrY", "chrX">>}

\* <<min_depth, min_minor_depth, min_minor_fraction>>; the first is the default.
Thresholds ==
    {<<2, 1, Rat(1, 10)>>, <<1, 1, Rat(1, 2)>>, <<0, 1, Rat(1, 10)>>, <<1, 0, Zero>>}

VARIABLES
    args,            \* parsed command line
    samfile,         \* header of the alignment file: chromosome name -> length
    pc,              \* "main", "pileup", "plot", "exit", "error"
    error,           \* the uncaught exception, if any
    chrom_i,         \* position of main's for loop in args.chromosomes
    chr_len, num_windows,
    depths, readbals, mapqs,
    depths_binned, readbals_binned, mapqs_binned,
    depths_counter, readbals_counter, mapqs_counter,
    window_id, win_pos,
    pileup_seen,     \* the pileup columns the for loop of traverse_bam has consumed
    stdout,          \* one record per progress report (lines 136-138)
    data,            \* <<>> or <<the dictionary traverse_bam returned>>
    plots,           \* image files saved by plot_data
    vcf_file, qualCutoff, vcf_i, vcf_pc, vcf_error,
    positions, quality, readBalance

bam_locals ==
    <<chr_len, num_windows, depths, readbals, mapqs, depths_binned, readbals_binned,
      mapqs_binned, depths_counter, readbals_counter, mapqs_counter, window_id, win_pos>>

bam_vars == <<args, samfile, pc, error, chrom_i, bam_locals, pileup_seen, stdout, data, plots>>

vcf_vars == <<vcf_file, qualCutoff, vcf_i, vcf_pc, vcf_error, positions, quality, readBalance>>

vars == <<bam_vars, vcf_vars>>

NoError == [type |-> "none", line |-> 0]

Raise(type, line) == pc' = "error" /\ error' = [type |-> type, line |-> line]

BamIdle ==
    /\ args = [chromosomes |-> <<"chrX">>, window_size |-> 1, min_depth |-> 2,
               min_minor_depth |-> 1, min_minor_fraction |-> Rat(1, 10)]
    /\ samfile = [c \in References |-> 1]
    /\ pc = "exit"
    /\ error = NoError
    /\ chrom_i = 1
    /\ chr_len = 0 /\ num_windows = 0
    /\ depths = <<>> /\ readbals = <<>> /\ mapqs = <<>>
    /\ depths_binned = <<>> /\ readbals_binned = <<>> /\ mapqs_binned = <<>>
    /\ depths_counter = <<>> /\ readbals_counter = <<>> /\ mapqs_counter = <<>>
    /\ window_id = 0 /\ win_pos = 0
    /\ pileup_seen = <<>> /\ stdout = <<>> /\ data = <<>> /\ plots = {}

VcfIdle ==
    /\ vcf_file = <<>> /\ qualCutoff = 0 /\ vcf_i = 1 /\ vcf_pc = "idle"
    /\ vcf_error = NoError
    /\ positions = <<>> /\ quality = <<>> /\ readBalance = <<>>

\* main, lines 13-14: the command line is parsed and the alignment file opened.
Init ==
    /\ \E cl \in ChromosomeLists, w \in 1..MaxWindow, t \in Thresholds :
          args = [chromosomes |-> cl, window_size |-> w, min_depth |-> t[1],
                  min_minor_depth |-> t[2], min_minor_fraction |-> t[3]]
    /\ \E lx \in 1..MaxChrLen : samfile = [c \in References |-> IF c = "chrX" THEN lx ELSE 1]
    /\ pc = "main"
    /\ error = NoError
    /\ chrom_i = 1
    /\ chr_len = 0 /\ num_windows = 0
    /\ depths = <<>> /\ readbals = <<>> /\ mapqs = <<>>
    /\ depths_binned = <<>> /\ readbals_binned = <<>> /\ mapqs_binned = <<>>
    /\ depths_counter = <<>> /\ readbals_counter = <<>> /\ mapqs_counter = <<>>
    /\ window_id = 0 /\ win_pos = 0
    /\ pileup_seen = <<>> /\ stdout = <<>> /\ data = <<>> /\ plots = {}
    /\ VcfIdle

\* get_length, lines 48-49: a dictionary lookup that raises KeyError on a missing name.
get_length(header, chrom) == header[chrom]

\* main lines 15-16 and traverse_bam lines 83-89: the next chromosome of the list is
\* looked up and the traversal state initialised.
MainFor ==
    /\ pc = "main"
    /\ UNCHANGED <<args, samfile, stdout, plots, chrom_i, vcf_vars>>
    /\ IF chrom_i > Len(args.chromosomes)
       THEN pc' = "exit" /\ UNCHANGED <<error, bam_locals, pileup_seen, data>>
       ELSE IF args.chromosomes[chrom_i] \notin DOMAIN samfile
       THEN Raise("KeyError", 49) /\ UNCHANGED <<bam_locals, pileup_seen, data>>
       ELSE /\ pc' = "pileup"
            /\ chr_len' = get_length(samfile, args.chromosomes[chrom_i])
            /\ num_windows' = NumWindows(chr_len', args.window_size)
            /\ depths' = reset_lists(3, args.window_size)[1]
            /\ readbals' = reset_lists(3, args.window_size)[2]
            /\ mapqs' = reset_lists(3, args.window_size)[3]
            /\ depths_binned' = reset_lists(3, args.window_size)[1]
            /\ readbals_binned' = reset_lists(3, args.window_size)[2]
            /\ mapqs_binned' = reset_lists(3, args.window_size)[3]
            /\ depths_counter' = reset_counters(3)[1]
            /\ readbals_counter' = reset_counters(3)[2]
            /\ mapqs_counter' = reset_counters(3)[3]
            /\ window_id' = 0
            /\ win_pos' = 0
            /\ pileup_seen' = <<>>
            /\ UNCHANGED <<error, data>>

\* traverse_bam lines 90-138: one iteration of the loop over the pileup, for the next
\* column the pileup yields.  pileup(chrom, 0, chr_len) yields at most chr_len columns.
Column(column) ==
    /\ pc = "pileup"
    /\ Len(pileup_seen) < chr_len
    /\ pileup_seen' = Append(pileup_seen, column)
    /\ UNCHANGED <<args, samfile, chrom_i, chr_len, num_windows, data, plots, vcf_vars>>
    /\ LET passes == PassesDepth(column, args.min_depth)
           minor == passes /\ PassesMinor(column, args.min_minor_depth, args.min_minor_fraction)
           slot == win_pos + 1
       IN
       IF passes /\ slot > Len(depths)
       THEN \* line 109: depths[win_pos] is out of range
            /\ Raise("IndexError", 109)
            /\ UNCHANGED <<depths, readbals, mapqs, depths_binned, readbals_binned,
                           mapqs_binned, depths_counter, readbals_counter, mapqs_counter,
                           window_id, win_pos, stdout>>
       ELSE IF passes /\ Len(col_mapqs(column)) = 0
       THEN \* line 110: sum([]) / len([])
            /\ Raise("ZeroDivisionError", 110)
            /\ depths' = [depths EXCEPT ![slot] = Rat(total_depth(column), 1)]
            /\ UNCHANGED <<readbals, mapqs, depths_binned, readbals_binned,
                           mapqs_binned, depths_counter, readbals_counter, mapqs_counter,
                           window_id, win_pos, stdout>>
       ELSE
       LET depths1 == IF passes THEN [depths EXCEPT ![slot] = Rat(total_depth(column), 1)]
                      ELSE depths
           mapqs1 == IF passes THEN [mapqs EXCEPT ![slot] = mean_mapq(column)] ELSE mapqs
           readbals1 == IF minor THEN [readbals EXCEPT ![slot] = allele_fraction(column)]
                        ELSE readbals
       IN
       IF ~AtWindowEnd(win_pos + 1, args.window_size)
       THEN /\ depths' = depths1 /\ mapqs' = mapqs1 /\ readbals' = readbals1
            /\ win_pos' = win_pos + 1
            /\ UNCHANGED <<pc, error, depths_binned, readbals_binned, mapqs_binned,
                           depths_counter, readbals_counter, mapqs_counter, window_id, stdout>>
       ELSE IF window_id + 1 > Len(depths_binned)
       THEN \* line 122: depths_binned[window_id] is out of range
            /\ Raise("IndexError", 122)
            /\ depths' = depths1 /\ mapqs' = mapqs1 /\ readbals' = readbals1
            /\ win_pos' = win_pos + 1
            /\ UNCHANGED <<depths_binned, readbals_binned, mapqs_binned,
                           depths_counter, readbals_counter, mapqs_counter, window_id, stdout>>
       ELSE /\ depths_binned' = [depths_binned EXCEPT ![window_id + 1] = np_mean(depths1)]
            /\ readbals_binned' = [readbals_binned EXCEPT ![window_id + 1] = np_mean(readbals1)]
            /\ mapqs_binned' = [mapqs_binned EXCEPT ![window_id + 1] = np_mean(mapqs1)]
            /\ depths_counter' = counter_update(depths_counter, depths1)
            /\ readbals_counter' = counter_update(readbals_counter, readbals1)
            /\ mapqs_counter' = counter_update(mapqs_counter, mapqs1)
            /\ depths' = reset_lists(3, args.window_size)[1]
            /\ readbals' = reset_lists(3, args.window_size)[2]
            /\ mapqs' = reset_lists(3, args.window_size)[3]
            /\ win_pos' = 0
            /\ window_id' = window_id + 1
            /\ stdout' = Append(stdout,
                   [num_passed_depth |-> Len(depths1), num_passed_minor |-> Len(readbals1),
                    out_of |-> args.window_size, window_id |-> window_id + 1,
                    num_windows |-> num_windows])
            /\ UNCHANGED <<pc, error>>

\* traverse_bam lines 140-156: the pileup is exhausted; the tables are built and returned.
TraverseReturn ==
    /\ pc = "pileup"
    /\ data' = <<[k \in ResultKeys |->
                    IF k = "windows"
                    THEN [depth |-> depths_binned, readbal |-> readbals_binned,
                          mapq |-> mapqs_binned]
                    ELSE mapqs_counter]>>
    /\ pc' = "plot"
    /\ UNCHANGED <<args, samfile, error, chrom_i, bam_locals, pileup_seen, stdout, plots,
                   vcf_vars>>

\* main line 18 and plot_data lines 159-190.
PlotData ==
    /\ pc = "plot"
    /\ UNCHANGED <<args, samfile, bam_locals, pileup_seen, stdout, data, vcf_vars>>
    /\ IF ~(PlotKeys \subseteq DOMAIN data[1])
       THEN Raise("KeyError", 166) /\ UNCHANGED <<plots, chrom_i>>
       ELSE /\ plots' = plots \cup {"depth_windows.png", "balance_windows.png",
                                    "mapq_windows.png", "depth_hist.png",
                                    "readbalance_hist.png", "mapq_hist.png"}
            /\ chrom_i' = chrom_i + 1
            /\ pc' = "main"
            /\ UNCHANGED error

----------------------------------------------------------------------------
\* xyalign.py: parse_platypus_VCF.  A line is a header line ('#' first) or a data
\* record with its position (column 2), quality (column 6) and the ';'-separated
\* annotations of column 8.  An annotation is the result of split('='): <<key, value>>
\* or, without '=', <<key>>.  A value is the text after '=' as its ','-separated
\* numbers: <<5>> is "5", <<5, 3>> is "5,3" and <<>> is the empty text.

TR_ORD == 17
TC_ORD == 14

Info(n, tc, tr) ==
    [i \in 1..n |-> IF i = TC_ORD + 1 THEN tc
                    ELSE IF i = TR_ORD + 1 THEN tr ELSE <<"K", <<1>>>>]

Record(qual, info) == [header |-> FALSE, pos |-> 100, qual |-> qual, info |-> info]

LineHeader == [header |-> TRUE, pos |-> 0, qual |-> 0, info |-> <<>>]
LineGood == Record(50, Info(TR_ORD + 1, <<"TC", <<10>>>>, <<"TR", <<5>>>>))
LineLowQual == Record(20, Info(TR_ORD + 1, <<"TC", <<10>>>>, <<"TR", <<5>>>>))
LineMultiTR == Record(50, Info(TR_ORD + 1, <<"TC", <<10>>>>, <<"TR", <<5, 3>>>>))
LineMultiTC == Record(50, Info(TR_ORD + 1, <<"TC", <<10, 8>>>>, <<"TR", <<5>>>>))
LineZero == Record(50, Info(TR_ORD + 1, <<"TC", <<10>>>>, <<"TR", <<0>>>>))
LineShort == Record(50, Info(TR_ORD, <<"TC", <<10>>>>, <<"TR", <<5>>>>))
LineNoValue == Record(50, Info(TR_ORD + 1, <<"TC">>, <<"TR", <<5>>>>))
LineEmptyValue == Record(50, Info(TR_ORD + 1, <<"TC", <<10>>>>, <<"TR", <<>>>>))

VcfLines ==
    {LineHeader, LineGood, LineLowQual, LineMultiTR, LineMultiTC, LineZero, LineShort,
     LineNoValue, LineEmptyValue}

VcfFiles == UNION {[1..n -> VcfLines] : n \in 0..MaxLines}

VcfRaise(type, line) ==
    /\ vcf_pc' = "error" /\ vcf_error' = [type |-> type, line |-> line]
    /\ UNCHANGED <<vcf_i, positions, quality, readBalance>>

VcfSkip ==
    /\ vcf_i' = vcf_i + 1
    /\ UNCHANGED <<vcf_pc, vcf_error, positions, quality, readBalance>>

\* Lines 44-47: the file is opened and the three lists are empty.
InitVCF ==
    /\ BamIdle
    /\ vcf_file \in VcfFiles
    /\ qualCutoff \in {0, 30}
    /\ vcf_i = 1
    /\ vcf_pc = "loop"
    /\ vcf_error = NoError
    /\ positions = <<>> /\ quality = <<>> /\ readBalance = <<>>

\* Lines 48-70: one iteration of the loop over the lines.  The return statement of
\* line 70 is indented by a tab, which Python 2 places at column 8, the indentation of
\* the loop body: the function returns at the end of the first iteration that is not
\* cut short by a continue.
VcfLine ==
    /\ vcf_pc = "loop"
    /\ vcf_i <= Len(vcf_file)
    /\ UNCHANGED <<bam_vars, vcf_file, qualCutoff>>
    /\ LET line == vcf_file[vcf_i]
           info == line.info
       IN
       IF line.header THEN VcfSkip
       ELSE IF line.qual < qualCutoff THEN VcfSkip
       ELSE IF Len(info) < TR_ORD + 1 THEN VcfRaise("IndexError", 56)
       ELSE IF Len(info[TR_ORD + 1]) < 2 THEN VcfRaise("IndexError", 56)
       ELSE IF Len(info) < TC_ORD + 1 THEN VcfRaise("IndexError", 57)
       ELSE IF Len(info[TC_ORD + 1]) < 2 THEN VcfRaise("IndexError", 57)
       ELSE
       LET TR == info[TR_ORD + 1][2]
           TC == info[TC_ORD + 1][2]
       IN
       IF Len(TR) > 1 \/ Len(TC) > 1 THEN VcfSkip
       ELSE IF Len(TR) = 0 THEN VcfRaise("ValueError", 60)
       ELSE IF TR[1] = 0 THEN VcfSkip
       ELSE IF Len(TC) = 0 THEN VcfRaise("ValueError", 60)
       ELSE IF TC[1] = 0 THEN VcfSkip
       ELSE /\ readBalance' = Append(readBalance, Rat(TR[1], TC[1]))
            /\ positions' = Append(positions, line.pos)
            /\ quality' = Append(quality, line.qual)
            /\ vcf_pc' = "returned"
            /\ UNCHANGED <<vcf_i, vcf_error>>

\* The loop runs out of lines without reaching line 70: the function returns None.
VcfEnd ==
    /\ vcf_pc = "loop"
    /\ vcf_i > Len(vcf_file)
    /\ vcf_pc' = "returned_none"
    /\ UNCHANGED <<bam_vars, vcf_file, qualCutoff, vcf_i, vcf_error, positions, quality,
                   readBalance>>

NextVCF == VcfLine \/ VcfEnd

SpecVCF == InitVCF /\ [][NextVCF]_vars

Next ==
    \/ MainFor
    \/ \E column \in Columns : Column(column)
    \/ TraverseReturn
    \/ PlotData

Spec == Init /\ [][Next]_vars

----------------------------------------------------------------------------
\* What the claims speak about, computed from the columns consumed so far.

Last(list) == list[Len(list)]

ZeroReads(column) == Contributing(column) = <<>>

HasUnknownChromosome == \E i \in DOMAIN args.chromosomes : args.chromosomes[i] \notin References

\* The value a position contributes to each metric under thresholds
\* t = <<min_depth, min_minor_depth, min_minor_fraction>>: 0 when it fails them.
SlotValues ==
    [column \in Columns, t \in Thresholds |->
        [depth |-> IF PassesDepth(column, t[1]) THEN Rat(total_depth(column), 1) ELSE Zero,
         mapq |-> IF PassesDepth(column, t[1]) THEN mean_mapq(column) ELSE Zero,
         readbal |-> IF PassesDepth(column, t[1]) /\ PassesMinor(column, t[2], t[3])
                     THEN allele_fraction(column) ELSE Zero,
         passes_depth |-> PassesDepth(column, t[1]),
         passes_minor |-> PassesDepth(column, t[1]) /\ PassesMinor(column, t[2], t[3])]]

ThresholdsNow == <<args.min_depth, args.min_minor_depth, args.min_minor_fraction>>

\* The j-th column of the i-th window (i, j = 1, 2, ...) of window_size - 1 positions.
WindowColumn(i, j) == pileup_seen[(i - 1) * (args.window_size - 1) + j]

DepthValues(i) ==
    [j \in 1..(args.window_size - 1) |-> SlotValues[WindowColumn(i, j), ThresholdsNow].depth]
MapqValues(i) ==
    [j \in 1..(args.window_size - 1) |-> SlotValues[WindowColumn(i, j), ThresholdsNow].mapq]
ReadbalValues(i) ==
    [j \in 1..(args.window_size - 1) |-> SlotValues[WindowColumn(i, j), ThresholdsNow].readbal]

\* sum / n for a sum in lowest terms.
Over(sum, n) == Rat(sum[1], sum[2] * n)

CountPassingDepth(i) ==
    Cardinality({j \in 1..(args.window_size - 1) :
                    SlotValues[WindowColumn(i, j), ThresholdsNow].passes_depth})

CountPassingMinor(i) ==
    Cardinality({j \in 1..(args.window_size - 1) :
                    SlotValues[WindowColumn(i, j), ThresholdsNow].passes_minor})

\* How often value v is recorded by the first k windows: its occurrences among the
\* window's positions, plus the never-written last slot of each buffer when v is 0.
Occurrences(Values(_), k, v) ==
    LET n == args.window_size - 1
        hits == {<<i, j>> \in (1..k) \X (1..n) : Values(i)[j] = v}
    IN Cardinality(hits) + (IF v = Zero THEN k ELSE 0)

RecordedValues(Values(_), k) ==
    {Values(i)[j] : <<i, j>> \in (1..k) \X (1..(args.window_size - 1))}
        \cup (IF k > 0 THEN {Zero} ELSE {})

CounterOfWindows(Values(_), k) ==
    [v \in RecordedValues(Values, k) |-> Occurrences(Values, k, v)]

Returned == data # <<>>

\* The positions for which the loop body reached its counters (lines 116-117).
PositionsCounted ==
    IF pc = "error" /\ error.line \in {109, 110} THEN Len(pileup_seen) - 1
    ELSE Len(pileup_seen)

----------------------------------------------------------------------------
\* C1: in traverse_bam a window flush occurs exactly after the positions whose
\* consumed count is a multiple of window_size - 1, and the flushes receive the window
\* indices 0, 1, 2, ... with no gaps (the progress report of the i-th flush shows i).
C1_FlushOncePerWindow ==
    /\ window_id = (IF args.window_size = 1 THEN 0
                    ELSE PositionsCounted \div (args.window_size - 1))
    /\ Len(stdout) = window_id
    /\ \A i \in DOMAIN stdout : stdout[i].window_id = i

\* C2: the window table returned by traverse_bam has exactly one row per flushed
\* window: after k flushes it has k rows, and storing a row never fails.
C2_OneRowPerFlushedWindow ==
    /\ Returned =>
          /\ Len(data[1]["windows"].depth) = window_id
          /\ Len(data[1]["windows"].readbal) = window_id
          /\ Len(data[1]["windows"].mapq) = window_id
    /\ ~(pc = "error" /\ error.line = 122)

\* C3: the result of traverse_bam holds the window table and a frequency table for
\* each of the three metrics, so every key plot_data reads is present.
C3_ResultHasEveryKeyPlotDataReads ==
    /\ Returned => {"windows", "depth_freq", "readbal_freq", "mapq_freq"} \subseteq DOMAIN data[1]
    /\ ~(pc = "error" /\ error.type = "KeyError" /\ error.line = 166)

\* C4: a pileup column with zero contributing reads has total_depth 0 and never makes
\* traverse_bam raise while computing the mapping-quality mean or the allele fraction,
\* whatever the thresholds are.
C4_ZeroReadColumnNeverRaises ==
    (pileup_seen # <<>> /\ ZeroReads(Last(pileup_seen))) =>
        /\ total_depth(Last(pileup_seen)) = 0
        /\ ~(pc = "error" /\ error.type = "ZeroDivisionError")

\* C5 (as claimed): each metric mean of a flushed window is the arithmetic mean of the
\* window_size - 1 values held in slots 0..window_size-2 only.
C5_MeanOverFilledSlotsOnly ==
    \A i \in 1..window_id :
        /\ depths_binned[i] = Over(SumRats(DepthValues(i)), args.window_size - 1)
        /\ readbals_binned[i] = Over(SumRats(ReadbalValues(i)), args.window_size - 1)
        /\ mapqs_binned[i] = Over(SumRats(MapqValues(i)), args.window_size - 1)

\* C5 (amended): each metric mean of a flushed window is the sum of the values of its
\* window_size - 1 positions (0 for a position that fails the thresholds) divided by
\* window_size: the buffer's last slot is never written and counts as a 0.
C5_MeanOverWholeBuffer ==
    \A i \in 1..window_id :
        /\ depths_binned[i] = Over(SumRats(DepthValues(i)), args.window_size)
        /\ readbals_binned[i] = Over(SumRats(ReadbalValues(i)), args.window_size)
        /\ mapqs_binned[i] = Over(SumRats(MapqValues(i)), args.window_size)

\* C5 witness: window_size 3, min_depth 1, depths 5, 0, 3: the first window was flushed
\* after the second position and its mean depth is 5/3.
C5_WitnessDepths503 ==
    /\ args.window_size = 3 /\ args.min_depth = 1
    /\ pileup_seen = <<Col5, ColDel, Col3>>
    /\ window_id = 1 /\ win_pos = 1
    /\ depths_binned[1] = Rat(5, 3)

\* C6: when the chromosome list holds a name absent from the header, the lookup
\* failure comes before any traversal work: no pileup column consumed, no progress
\* report printed, no result and no plot produced.
C6_UnknownChromosomeBeforeAnyWork ==
    HasUnknownChromosome =>
        /\ pileup_seen = <<>>
        /\ stdout = <<>>
        /\ data = <<>>
        /\ plots = {}

\* C7: parse_platypus_VCF never fails on a malformed record (multi-allelic, or with
\* missing values): the record is skipped.
MultiAllelic(line) ==
    \E i \in DOMAIN line.info :
        /\ i \in {TR_ORD + 1, TC_ORD + 1}
        /\ Len(line.info[i]) = 2
        /\ Len(line.info[i][2]) > 1

MissingValues(line) ==
    \/ Len(line.info) < TR_ORD + 1
    \/ \E i \in {TR_ORD + 1, TC_ORD + 1} : Len(line.info[i]) < 2 \/ line.info[i][2] = <<>>

Malformed(line) == ~line.header /\ (MultiAllelic(line) \/ MissingValues(line))

C7_MalformedRecordIsSkipped ==
    (vcf_pc = "error") => ~Malformed(vcf_file[vcf_i])

\* C8: the progress report after a flush gives the number of the window's positions
\* that met min_depth and the number that met both minor-allele thresholds.
C8_ProgressCountsQualifyingPositions ==
    \A i \in DOMAIN stdout :
        /\ stdout[i].num_passed_depth = CountPassingDepth(i)
        /\ stdout[i].num_passed_minor = CountPassingMinor(i)

\* C9: when the pileup is exhausted traverse_bam returns without flushing the partly
\* filled last window: the number of flushes is floor(consumed / (window_size - 1)),
\* and the window rows and frequency counters hold the flushed windows' values only.
C9_PartialWindowNotFlushed ==
    (Returned /\ args.window_size >= 2) =>
        LET k == Len(pileup_seen) \div (args.window_size - 1)
        IN /\ window_id = k
           /\ Len(stdout) = k
           /\ \A i \in (k + 1)..Len(depths_binned) :
                 /\ data[1]["windows"].depth[i] = Zero
                 /\ data[1]["windows"].readbal[i] = Zero
                 /\ data[1]["windows"].mapq[i] = Zero
           /\ \A i \in 1..k :
                 /\ data[1]["windows"].depth[i] = Over(SumRats(DepthValues(i)), args.window_size)
                 /\ data[1]["windows"].readbal[i] = Over(SumRats(ReadbalValues(i)), args.window_size)
                 /\ data[1]["windows"].mapq[i] = Over(SumRats(MapqValues(i)), args.window_size)
           /\ data[1]["mapq_freq"] = CounterOfWindows(MapqValues, k)
           /\ mapqs_counter = CounterOfWindows(MapqValues, k)
           /\ depths_counter = CounterOfWindows(DepthValues, k)
           /\ readbals_counter = CounterOfWindows(ReadbalValues, k)

\* C9 witness: a traversal returned with a flushed window behind it and a partly
\* filled window whose last position met the depth threshold.
C9_WitnessDroppedTail ==
    /\ Returned /\ args.window_size >= 2
    /\ window_id >= 1
    /\ Len(pileup_seen) % (args.window_size - 1) # 0
    /\ SlotValues[Last(pileup_seen), ThresholdsNow].passes_depth

\* C10: in every progress report the number of windows processed so far is at most
\* num_windows = chr_len // window_size + 1.
C10_WindowsProcessedAtMostNumWindows ==
    \A i \in DOMAIN stdout :
        /\ stdout[i].window_id <= stdout[i].num_windows
        /\ stdout[i].window_id <= chr_len \div args.window_size + 1

\* C10 witness: a report in which the windows processed reach num_windows.
C10_WitnessAllWindowsProcessed ==
    /\ args.window_size >= 2
    /\ \E i \in DOMAIN stdout : stdout[i].window_id = stdout[i].num_windows

====
